---- MODULE Spec2Model ----
(***************************************************************************)
(* Vision simulator and eye-test game (vision_project/static/js): the      *)
(* thin-lens solver, the scene builders, the ray tracer, the focus         *)
(* description and the pan/zoom view state of the detail canvas.           *)
(*                                                                         *)
(* Numbers.  A JavaScript number is modelled as a pair <<n, d>>:           *)
(*   d > 0       the rational n/d in lowest terms (IEEE rounding is not    *)
(*               modelled: arithmetic is exact),                           *)
(*   <<1, 0>>    +Infinity,   <<-1, 0>>  -Infinity,   <<0, 0>>  NaN,       *)
(*   <<0, -1>>   the value undefined (a missing field),                    *)
(*   <<0, -2>>   a control's text that does not parse as a number.         *)
(* The sign of a zero is not modelled: x - x is +0 in IEEE arithmetic, so  *)
(* 1/(x - x) is +Infinity, which is what QDiv gives.                       *)
(***************************************************************************)
EXTENDS Integers, Sequences, FiniteSets, TLC

----------------------------------------------------------------------------
(* Exact arithmetic on the number pairs *)

IAbs(i) == IF i < 0 THEN -i ELSE i

ISgn(i) == IF i < 0 THEN -1 ELSE IF i > 0 THEN 1 ELSE 0

RECURSIVE GCD(_, _)
GCD(a, b) == IF b = 0 THEN a ELSE GCD(b, a % b)

NaN == <<0, 0>>

PosInf == <<1, 0>>

NegInf == <<-1, 0>>

Undefined == <<0, -1>>

NotANumberText == <<0, -2>>

\* n/d in lowest terms with d > 0; x/0 is +-Infinity and 0/0 is NaN
Q(n, d) ==
  IF d = 0 THEN <<ISgn(n), 0>>
  ELSE LET g == GCD(IAbs(n), IAbs(d))
           s == ISgn(d)
       IN  <<s * (n \div g), s * (d \div g)>>

Zero == <<0, 1>>

One == <<1, 1>>

IsNaN(a) == a[2] = 0 /\ a[1] = 0

IsInf(a) == a[2] = 0 /\ a[1] # 0

\* Number.isFinite
IsFinite(a) == a[2] > 0

IsNumber(a) == a[2] >= 0

QSgn(a) == ISgn(a[1])

QNeg(a) == <<-a[1], a[2]>>

QAbs(a) == <<IAbs(a[1]), a[2]>>

QAdd(a, b) ==
  IF IsNaN(a) \/ IsNaN(b) THEN NaN
  ELSE IF IsInf(a) /\ IsInf(b) THEN (IF a = b THEN a ELSE NaN)
  ELSE IF IsInf(a) THEN a
  ELSE IF IsInf(b) THEN b
  ELSE LET g == GCD(a[2], b[2])
           l == (a[2] \div g) * b[2]
       IN  Q(a[1] * (l \div a[2]) + b[1] * (l \div b[2]), l)

QSub(a, b) == QAdd(a, QNeg(b))

QMul(a, b) ==
  IF IsNaN(a) \/ IsNaN(b) THEN NaN
  ELSE IF IsInf(a) \/ IsInf(b)
       THEN (IF a[1] = 0 \/ b[1] = 0 THEN NaN ELSE <<QSgn(a) * QSgn(b), 0>>)
  ELSE LET g1 == GCD(IAbs(a[1]), b[2])
           g2 == GCD(IAbs(b[1]), a[2])
       IN  Q((a[1] \div g1) * (b[1] \div g2), (a[2] \div g2) * (b[2] \div g1))

QInv(a) ==
  IF IsNaN(a) THEN NaN
  ELSE IF IsInf(a) THEN Zero
  ELSE IF a[1] = 0 THEN PosInf
  ELSE IF a[1] < 0 THEN <<-a[2], -a[1]>> ELSE <<a[2], a[1]>>

QDiv(a, b) ==
  IF IsNaN(a) \/ IsNaN(b) THEN NaN
  ELSE IF IsInf(a) /\ IsInf(b) THEN NaN
  ELSE IF IsInf(b) THEN Zero
  ELSE IF b[1] = 0 THEN <<QSgn(a), 0>>
  ELSE QMul(a, QInv(b))

\* n1/d1 < n2/d2 for d1, d2 > 0, by comparing the continued fractions: no
\* product is formed, so the tolerances 1e-9 and 1e-6 can be compared
RECURSIVE FracLess(_, _, _, _)
FracLess(n1, d1, n2, d2) ==
  LET q1 == n1 \div d1
      q2 == n2 \div d2
      r1 == n1 % d1
      r2 == n2 % d2
  IN  IF q1 # q2 THEN q1 < q2
      ELSE IF r2 = 0 THEN FALSE
      ELSE IF r1 = 0 THEN TRUE
      ELSE FracLess(d2, r2, d1, r1)

\* a < b as JavaScript compares numbers: false when either is NaN
QLt(a, b) ==
  IF IsNaN(a) \/ IsNaN(b) THEN FALSE
  ELSE IF IsInf(a) THEN a[1] < 0 /\ b # NegInf
  ELSE IF IsInf(b) THEN b[1] > 0
  ELSE FracLess(a[1], a[2], b[1], b[2])

QGt(a, b) == QLt(b, a)

QLe(a, b) == ~IsNaN(a) /\ ~IsNaN(b) /\ ~QLt(b, a)

\* a === b
QEq(a, b) == ~IsNaN(a) /\ a = b

QMax(a, b) == IF IsNaN(a) \/ IsNaN(b) THEN NaN ELSE IF QLt(a, b) THEN b ELSE a

QMin(a, b) == IF IsNaN(a) \/ IsNaN(b) THEN NaN ELSE IF QLt(b, a) THEN b ELSE a

\* Math.sign
QSign(a) == IF IsNaN(a) THEN NaN ELSE <<QSgn(a), 1>>

\* the tolerances of the source
Eps9 == <<1, 1000000000>>

Eps6 == <<1, 1000000>>

Big9 == <<1000000000, 1>>

----------------------------------------------------------------------------
(* State *)

VARIABLES
  page,       \* the program a behaviour is about: "lens", "sim", "legacy", "game", "worker"
  sw,         \* the service worker: its cache, fetches and cache writes in flight
  consts,     \* OPTICAL_CONSTANTS, as the page's template supplies them
  dom,        \* the page: its canvas contexts, what has loaded, pending timers
  lensIn,     \* the arguments of a thin-lens solve: [u, h, P]
  lensOut,    \* what the solver returned for them: [impl, res]
  ctl,        \* the values of the page's controls, as typed
  out,        \* what the last redraw computed and showed
  game,       \* the eye-test game: the patient, the request in flight
  view,       \* the detail canvas's view: [zoom, panX, panY]
  pan,        \* the drag in progress: [isPanning, lastX, lastY]
  ev,         \* the last zoom event: its cursor, the view it found and left
  nEvents     \* how many events have changed the view

lensVars == <<lensIn, lensOut>>

sceneVars == <<ctl, out, game>>

viewVars == <<view, pan, ev, nEvents>>

vars == <<page, sw, consts, dom, lensIn, lensOut, ctl, out, game, view, pan, ev, nEvents>>

----------------------------------------------------------------------------
(* OPTICAL_CONSTANTS: set by the server's template, not by the scripts *)

p_emmetropic_eye_lens_power_D == 60

game_object_distance_m == 6

\* the spacings the template may supply, in millimetres
LensToEyeMM == {12, 15}

\* an emmetropic eye focuses a relaxed-eye image of a distant object on the
\* retina: d_retina_fixed_m = 1 / p_emmetropic_eye_lens_power_D
StandardConstants ==
  { [p_emmetropic_eye_lens_power_D |-> Q(p_emmetropic_eye_lens_power_D, 1),
     d_retina_fixed_m |-> Q(1, p_emmetropic_eye_lens_power_D),
     corrective_lens_to_eye_lens_distance_m |-> Q(mm, 1000),
     game_object_distance_m |-> Q(game_object_distance_m, 1)] : mm \in LensToEyeMM }

NoConstants == [p_emmetropic_eye_lens_power_D |-> Undefined]

----------------------------------------------------------------------------
(* The thin-lens solver *)

\* calculateThinLensImage taking every object beyond 1 m (not 1e9 m) as an
\* object at infinity
calculateThinLensImage_FarThreshold(u_m, h_obj_m, P_D) ==
  IF QLt(QAbs(P_D), Eps9)
  THEN [v_m |-> u_m, h_img_m |-> h_obj_m, mag |-> One]
  ELSE LET far == u_m = PosInf \/ u_m = NegInf \/ QGt(QAbs(u_m), One)
           atLens == QLt(QAbs(u_m), Eps9)
           term_1_u == IF far THEN Zero ELSE QDiv(One, u_m)
           v_m == IF atLens THEN Zero
                  ELSE IF QLt(QAbs(QSub(P_D, term_1_u)), Eps9) THEN PosInf
                  ELSE QDiv(One, QSub(P_D, term_1_u))
           mag == IF ~(far \/ atLens) THEN QDiv(v_m, u_m) ELSE One
       IN  [v_m |-> v_m, h_img_m |-> QMul(h_obj_m, mag), mag |-> mag]

\* part_001: calculateThinLensImage(u_m, h_obj_m, P_D)
calculateThinLensImage(u_m, h_obj_m, P_D) ==
  IF QLt(QAbs(P_D), Eps9)
  THEN [v_m |-> u_m, h_img_m |-> h_obj_m, mag |-> One]
  ELSE LET far == u_m = PosInf \/ u_m = NegInf \/ QGt(QAbs(u_m), Big9)
           atLens == QLt(QAbs(u_m), Eps9)
           term_1_u == IF far THEN Zero ELSE QDiv(One, u_m)
           v_m == IF atLens THEN Zero
                  ELSE IF QLt(QAbs(QSub(P_D, term_1_u)), Eps9) THEN PosInf
                  ELSE QDiv(One, QSub(P_D, term_1_u))
           mag == IF ~(far \/ atLens) THEN QDiv(v_m, u_m) ELSE One
       IN  [v_m |-> v_m, h_img_m |-> QMul(h_obj_m, mag), mag |-> mag]

\* common.js: calculateThinLensImage(u, h, P); two of its three returns
\* carry no mag field
calculateThinLensImageV3(u, h, P) ==
  IF QLt(QAbs(P), Eps9)
  THEN [v |-> u, h_img |-> h, mag |-> Undefined]
  ELSE LET u_inv == IF QGt(QAbs(u), Big9) \/ ~IsFinite(u) THEN Zero ELSE QDiv(One, u)
       IN  IF QLt(QAbs(QSub(P, u_inv)), Eps9)
           THEN [v |-> PosInf, h_img |-> PosInf, mag |-> Undefined]
           ELSE LET v == QDiv(One, QSub(P, u_inv))
                    mag == IF QLt(QAbs(u), Eps9) \/ ~IsFinite(u) THEN One ELSE QDiv(v, u)
                IN  [v |-> v, h_img |-> QMul(h, mag), mag |-> mag]

\* Object distances, object heights and lens powers the solver is applied to
TinyDen == 2000000000

SolverU ==
  { Zero, Q(1, TinyDen), Q(1, 1000), Q(1, 4), Q(1, 2), One, Q(6, 1),
    Q(-1, 1), Q(-247, 250), Q(TinyDen, 1), Q(TinyDen, TinyDen + 1), PosInf }

SolverH == { Q(1, 100), Q(1, 50), One }

SolverP ==
  { Zero, Q(1, TinyDen), Q(1, 500000), One, Q(-1, 1), Q(2, 1), Q(-2, 1),
    Q(4, 1), Q(60, 1), Q(61, 1) }

\* the arguments whose image distance and height fit the integers of the model
SolverFits(u, h, P) ==
  /\ (u = Q(TinyDen, 1)) => (P \in { Zero, Q(1, TinyDen), One, Q(-1, 1) } /\ h = One)
  /\ (u = Q(1, TinyDen)) => P # Q(1, 500000)
  /\ (u = Q(TinyDen, TinyDen + 1)) => P \in { Zero, Q(1, TinyDen), One }

SolverInputs ==
  { [u |-> u, h |-> h, P |-> P] : u \in SolverU, h \in SolverH, P \in SolverP }

NoLens == [impl |-> "none"]

NoControls == [lensMode |-> "none"]

NoOutput == [drawn |-> FALSE]

NoGame == [asking |-> FALSE]

NoView == [zoom |-> Undefined]

NoPan == [isPanning |-> FALSE, lastX |-> Undefined, lastY |-> Undefined, cursor |-> ""]

NoEvent == [kind |-> "none"]

\* no page
NoDom == [loaded |-> FALSE]

\* A page whose scripts have run with the canvases and the constants in
\* place.  timers counts the pending setTimeout calls of requestRedraw: on
\* the simulator page the controls' listener has set one, because
\* drawSimulation was not yet defined, and the drawing listener another.
DomReady(pg) ==
  [loaded |-> TRUE, ctx |-> TRUE, drawReady |-> TRUE,
   timers |-> IF pg = "sim" THEN 2 ELSE 0, alert |-> "", placeholder |-> ""]

\* a page with no service worker in the picture
NoWorker == [cache |-> "none"]

InitLens ==
  /\ page = "lens"
  /\ sw = NoWorker
  /\ consts = NoConstants
  /\ dom = NoDom
  /\ lensIn \in { i \in SolverInputs : SolverFits(i.u, i.h, i.P) }
  /\ lensOut = NoLens
  /\ ctl = NoControls
  /\ out = NoOutput
  /\ game = NoGame
  /\ view = NoView
  /\ pan = NoPan
  /\ ev = NoEvent
  /\ nEvents = 0

\* part_001's solver applied to the arguments
SolveLegacy ==
  /\ page = "lens"
  /\ lensOut' = [impl |-> "part_001",
                 res |-> calculateThinLensImage(lensIn.u, lensIn.h, lensIn.P)]
  /\ UNCHANGED <<page, sw, consts, dom, lensIn, sceneVars, viewVars>>

\* common.js's solver applied to the arguments
SolveV3 ==
  /\ page = "lens"
  /\ lensOut' = [impl |-> "common",
                 res |-> calculateThinLensImageV3(lensIn.u, lensIn.h, lensIn.P)]
  /\ UNCHANGED <<page, sw, consts, dom, lensIn, sceneVars, viewVars>>

NextLens == SolveLegacy \/ SolveV3

SpecLens == InitLens /\ [][NextLens]_vars

----------------------------------------------------------------------------
(* Reading a control *)

\* common.js: parseFloatSafe(value, defaultValue)
parseFloatSafe(value, defaultValue) ==
  LET num == IF IsNumber(value) THEN value ELSE NaN
  IN  IF IsNaN(num) THEN defaultValue ELSE num

\* simulator_controls.js, requestRedraw: parseFloat(value) || dflt
parseFloatOr(value, dflt) ==
  LET num == IF IsNumber(value) THEN value ELSE NaN
  IN  IF IsNaN(num) \/ num = Zero THEN dflt ELSE num

\* Number.prototype.toFixed(digits) of x >= 0, as the number the text shows:
\* the multiple of 10^-digits nearest to x, the larger one on a tie
Pow10(k) == IF k = 0 THEN 1 ELSE IF k = 1 THEN 10 ELSE IF k = 2 THEN 100 ELSE 1000

toFixed(x, digits) ==
  IF ~IsFinite(x) THEN x
  ELSE LET y == QMul(x, <<Pow10(digits), 1>>)
           n == (y[1] \div y[2]) + (IF 2 * (y[1] % y[2]) >= y[2] THEN 1 ELSE 0)
       IN  Q(n, Pow10(digits))

\* the text of #infoDisplay and of the spoiler captions: the sentence (kind),
\* the number it shows and the words for the side of the retina
Info(kind, mm, side) == [kind |-> kind, mm |-> mm, side |-> side]

----------------------------------------------------------------------------
(* simulator_controls.js (simulator_draw.js v10): the simulator page *)

PIXELS_PER_METER == 8000

\* the width and height of a canvas element
canvasWidth == 800

canvasHeight == 450

View(zoom, panX, panY) == [zoom |-> zoom, panX |-> panX, panY |-> panY]

CentredView(zoom) == View(zoom, Q(canvasWidth, 2), Q(canvasHeight, 2))

\* the detail view a page is constructed with
View0(pg) ==
  IF pg = "sim" THEN CentredView(Q(20, 1))
  ELSE IF pg = "game" THEN CentredView(Q(200, 1))
  ELSE CentredView(Q(1, 2))

OBJECT_HEIGHT_M == Q(1, 100)

\* requestRedraw: the config read from the controls
SimConfig(c) ==
  [inherentError |-> parseFloatOr(c.inherentError, Zero),
   objectDistance |-> parseFloatOr(c.objectDistance, One),
   lensMode |-> c.lensMode,
   glassesRx |-> parseFloatOr(c.glassesRx, Zero)]

\* getSceneData(config)
getSceneData(config, K) ==
  LET u_obj == config.objectDistance
      h_obj == OBJECT_HEIGHT_M
      P_glasses == IF config.lensMode = "glasses" THEN config.glassesRx ELSE Zero
      P_emmetropic == K.p_emmetropic_eye_lens_power_D
      u_obj_inv == IF QGt(QAbs(u_obj), Big9) THEN Zero ELSE QDiv(One, u_obj)
      P_accom == u_obj_inv
      P_eye_actual == QAdd(QAdd(P_emmetropic, config.inherentError), P_accom)
      P_total == QAdd(P_glasses, P_eye_actual)
      v_final == QDiv(One, QSub(P_total, u_obj_inv))
      m_final == QDiv(v_final, u_obj)
      h_final == QMul(h_obj, m_final)
  IN  [object |-> [x |-> QNeg(u_obj), h |-> h_obj],
       glasses |-> [x |-> QNeg(K.corrective_lens_to_eye_lens_distance_m), P |-> P_glasses],
       eye |-> [x |-> Zero, P |-> P_eye_actual],
       finalImage |-> [x |-> v_final, h |-> h_final]]

\* One ray of drawRays / drawGameRays, in canvas units (world * PPM): the
\* slope-update recurrence through the glasses and the eye lens.  toX, toY is
\* where the third segment is drawn to.
TraceRay(ray, obj_x, glasses_x, eye_x, final_img_x, P_g, P_e, PPM, toY) ==
  LET y_at_glasses == QAdd(ray.y, QMul(ray.slope, QSub(glasses_x, obj_x)))
      slope_after_glasses == QSub(ray.slope, QDiv(QMul(y_at_glasses, P_g), PPM))
      y_at_eye == QAdd(y_at_glasses, QMul(slope_after_glasses, QSub(eye_x, glasses_x)))
      slope_after_eye == QSub(slope_after_glasses, QDiv(QMul(y_at_eye, P_e), PPM))
      final_y_endpoint == QAdd(y_at_eye, QMul(slope_after_eye, QSub(final_img_x, eye_x)))
      end_y == IF toY = Undefined THEN final_y_endpoint ELSE toY
  IN  [y |-> ray.y, slope |-> ray.slope,
       y_at_glasses |-> y_at_glasses, slope_after_glasses |-> slope_after_glasses,
       y_at_eye |-> y_at_eye, slope_after_eye |-> slope_after_eye,
       final_y_endpoint |-> final_y_endpoint,
       segments |-> << <<obj_x, ray.y, glasses_x, y_at_glasses>>,
                       <<glasses_x, y_at_glasses, eye_x, y_at_eye>>,
                       <<eye_x, y_at_eye, final_img_x, end_y>> >>]

\* drawRays(ctx, scene, currentZoom): the three rays, each drawn to the
\* computed image point, and whether the image marker is drawn
drawRays(scene) ==
  LET PPM == <<PIXELS_PER_METER, 1>>
      obj_x == QMul(scene.object.x, PPM)
      obj_h == QMul(QNeg(scene.object.h), PPM)
      glasses_x == QMul(scene.glasses.x, PPM)
      eye_x == QMul(scene.eye.x, PPM)
      final_img_x == QMul(scene.finalImage.x, PPM)
      final_img_h == QMul(QNeg(scene.finalImage.h), PPM)
      initialRays ==
        << [y |-> obj_h, slope |-> Zero],
           [y |-> obj_h, slope |-> QDiv(obj_h, QSub(obj_x, glasses_x))],
           [y |-> obj_h, slope |-> QDiv(QMul(obj_h, Q(1, 2)), obj_x)] >>
  IN  [rays |-> [i \in 1..3 |->
                   TraceRay(initialRays[i], obj_x, glasses_x, eye_x, final_img_x,
                            scene.glasses.P, scene.eye.P, PPM, final_img_h)],
       PPM |-> PPM,
       final_img_x |-> final_img_x,
       final_img_h |-> final_img_h,
       marker |-> IsFinite(final_img_x)]

\* window.drawSimulation: the description shown in #infoDisplay
SimInfoText(scene, K) ==
  IF IsFinite(scene.finalImage.x)
  THEN LET blur == QSub(scene.finalImage.x, K.d_retina_fixed_m)
       IN  IF QLt(QAbs(blur), Q(1, 10000))
           THEN Info("sharp", Undefined, "")
           ELSE Info("blurred", toFixed(QAbs(QMul(blur, <<1000, 1>>)), 2),
                     IF QLt(blur, Zero) THEN "in front of" ELSE "behind")
  ELSE Info("infinity", Undefined, "")

\* One drawn diagram: the scene it shows, where the final image and the retina
\* are, the rays, the description computed for it, and the auto-fit view of
\* the overview canvas it is drawn on (NoView on a canvas without auto-fit)
Panel(scene, finalX, finalH, retina, rays, infoText, overview) ==
  [scene |-> scene, finalX |-> finalX, finalH |-> finalH, retina |-> retina,
   rays |-> rays, infoText |-> infoText, overview |-> overview]

\* the view that shows the world from minX to maxX: zoom, panX and panY as
\* drawSimulation computes them
SimFit(minX, maxX, zoom) ==
  [zoom |-> zoom,
   panX |-> QAdd(QMul(QMul(QNeg(minX), <<PIXELS_PER_METER, 1>>), zoom), Q(canvasWidth, 40)),
   panY |-> Q(canvasHeight, 2)]

\* drawSimulation: xExtents, minX and maxX
SimExtents(scene, K) ==
  {scene.object.x, K.d_retina_fixed_m, Zero, scene.glasses.x}
     \cup (IF IsFinite(scene.finalImage.x) THEN {scene.finalImage.x} ELSE {})

\* Math.min(...xs) and Math.max(...xs) of a non-empty list: NaN when one of
\* them is
MinOf(xs) ==
  IF \E x \in xs : IsNaN(x) THEN NaN
  ELSE CHOOSE x \in xs : \A y \in xs : ~QLt(y, x)

MaxOf(xs) ==
  IF \E x \in xs : IsNaN(x) THEN NaN
  ELSE CHOOSE x \in xs : \A y \in xs : ~QLt(x, y)

SimSpan(minX, maxX) ==
  SimFit(minX, maxX,
         QDiv(Q(canvasWidth * 95, 100), QMul(QSub(maxX, minX), <<PIXELS_PER_METER, 1>>)))

\* drawSimulation: the auto-fit view of the overview canvas
SimAutoView(scene, K) ==
  SimSpan(QSub(MinOf(SimExtents(scene, K)), QAbs(QMul(scene.object.x, Q(5, 100)))),
          QAdd(MaxOf(SimExtents(scene, K)), QAbs(QMul(K.d_retina_fixed_m, Q(1, 2)))))

\* window.drawSimulation(config): the scene, its rays (the same on both
\* canvases, which differ in the view only) and the description
\* a drawSimulation that draws the overview canvas with the detail view
SimDraw_SharedView(c, K, v) ==
  LET config == SimConfig(c)
      scene == getSceneData(config, K)
  IN  [drawn |-> TRUE, config |-> config,
       panels |-> << Panel(scene, scene.finalImage.x, scene.finalImage.h,
                           K.d_retina_fixed_m, drawRays(scene), SimInfoText(scene, K),
                           v) >>,
       detailView |-> v]

\* drawSimulation(config) while the detail view is v: the scene on the
\* overview canvas with the auto-fit view, and on the detail canvas with v
SimDraw(c, K, v) ==
  LET config == SimConfig(c)
      scene == getSceneData(config, K)
  IN  [drawn |-> TRUE, config |-> config,
       panels |-> << Panel(scene, scene.finalImage.x, scene.finalImage.h,
                           K.d_retina_fixed_m, drawRays(scene), SimInfoText(scene, K),
                           SimAutoView(scene, K)) >>,
       detailView |-> v]

\* what can be typed into the numeric controls
ErrorTexts == { Zero, Q(-2, 1), Q(1, 4) }

DistanceTexts == { One, Q(6, 1), Q(1, 4), Zero, Q(-1, 1), NotANumberText }

PowerTexts == { Zero, Q(2, 1), Q(-2, 1), Q(-60, 1) }

SimControls0 ==
  [inherentError |-> Zero, objectDistance |-> One, lensMode |-> "uncorrected",
   glassesRx |-> Zero]

\* an 'input' or 'change' event of a control: the listener is requestRedraw
\* (the glasses input is disabled while the mode is uncorrected)
SimInput ==
  /\ page = "sim"
  /\ dom.drawReady
  /\ \/ \E v \in ErrorTexts : ctl' = [ctl EXCEPT !.inherentError = v]
     \/ \E v \in DistanceTexts : ctl' = [ctl EXCEPT !.objectDistance = v]
     \/ /\ ctl.lensMode = "glasses"
        /\ \E v \in PowerTexts : ctl' = [ctl EXCEPT !.glassesRx = v]
     \/ \E m \in {"uncorrected", "glasses"} : ctl' = [ctl EXCEPT !.lensMode = m]
  /\ out' = SimDraw(ctl', consts, view)
  /\ UNCHANGED <<page, sw, consts, dom, lensVars, viewVars, game>>

\* a timer set by the page's scripts fires, 50 ms after DOMContentLoaded:
\* requestRedraw, which draws now that drawSimulation is defined
SimFirstDraw ==
  /\ page = "sim"
  /\ dom.drawReady
  /\ dom.timers > 0
  /\ dom' = [dom EXCEPT !.timers = @ - 1]
  /\ out' = SimDraw(ctl, consts, view)
  /\ UNCHANGED <<page, sw, consts, lensVars, viewVars, ctl, game>>

----------------------------------------------------------------------------
(* part_001 with css/static/js/simulator_controls.js: the two-stage simulator *)

OBJECT_VISUAL_HEIGHT_WORLD == Q(1, 50)

CORRECTIVE_LENS_WORLD_X == Zero

OPTICAL_AXIS_Y_WORLD == Zero

\* initializeSimulatorCoreConstants
EYE_LENS_WORLD_X(K) == QAdd(CORRECTIVE_LENS_WORLD_X, K.corrective_lens_to_eye_lens_distance_m)

RETINA_WORLD_X(K) == QAdd(EYE_LENS_WORLD_X(K), K.d_retina_fixed_m)

\* requestRedraw: the config read from the controls
LegacyConfig(c) ==
  LET d == parseFloatSafe(c.objectDistance, One)
  IN  [inherentError |-> parseFloatSafe(c.inherentError, Zero),
       objectDistance |-> IF QLe(d, Zero) THEN Q(1, 1000) ELSE d,
       objectYOffset |-> parseFloatSafe(c.objectYOffset, Zero),
       lensMode |-> c.lensMode,
       manualLensPower |-> parseFloatSafe(c.manualLensPower, Zero),
       glassesRx |-> parseFloatSafe(c.glassesRx, Zero),
       shiftRx |-> parseFloatSafe(c.shiftRx, Zero)]

NoImage == [formed |-> FALSE]

\* drawPrincipalRaysForLensWorld, after the solver has returned r
ImageOfLens(r, obj_y_tip_w, lens_x_w) ==
  [formed |-> TRUE,
   x_w |-> QAdd(lens_x_w, r.v_m),
   y_tip_w |-> QAdd(OPTICAL_AXIS_Y_WORLD, QMul(QSub(obj_y_tip_w, OPTICAL_AXIS_Y_WORLD), r.mag)),
   h_m |-> QAbs(r.h_img_m), v_m |-> r.v_m, mag |-> r.mag]

\* drawPrincipalRaysForLensWorld: the image one lens forms (null when the
\* lens has no power and the object is at infinity)
drawPrincipalRaysForLensWorld(obj_y_tip_w, obj_x_w, u_m, P_D, lens_x_w, h_obj_for_calc_m) ==
  IF QLt(QAbs(P_D), Eps9) /\ u_m = PosInf
  THEN NoImage
  ELSE ImageOfLens(calculateThinLensImage(u_m, h_obj_for_calc_m, P_D), obj_y_tip_w, lens_x_w)

\* drawSimulation: the description shown in #infoDisplay
LegacyInfoText(finalImageProperties, image1Failed, K) ==
  IF finalImageProperties.formed
  THEN LET v == finalImageProperties.v_m
           dist_img_from_retina_m == QSub(v, K.d_retina_fixed_m)
       IN  IF v = PosInf THEN Info("infinity", Undefined, "")
           ELSE IF QLt(QAbs(dist_img_from_retina_m), Q(5, 100000))
           THEN Info("sharp", Undefined, "")
           ELSE Info("blurred", toFixed(QAbs(QMul(dist_img_from_retina_m, <<1000, 1>>)), 1),
                     IF QLt(dist_img_from_retina_m, Zero) THEN "in front of" ELSE "behind")
  ELSE IF image1Failed THEN Info("noI1", Undefined, "")
  ELSE Info("indeterminate", Undefined, "")

\* drawSimulation: the tip of the object arrow
ObjectTipY(config) ==
  LET y_center_w == QSub(OPTICAL_AXIS_Y_WORLD, config.objectYOffset)
      side == IF QSub(y_center_w, OPTICAL_AXIS_Y_WORLD) = Zero THEN One
              ELSE QSign(QSub(y_center_w, OPTICAL_AXIS_Y_WORLD))
  IN  QSub(y_center_w, QMul(QDiv(OBJECT_VISUAL_HEIGHT_WORLD, Q(2, 1)), side))

\* drawSimulation: P_corrective_D and hasCorrectiveLens
CorrectivePower(config) ==
  IF config.lensMode = "manual" THEN config.manualLensPower
  ELSE IF config.lensMode = "prescription" THEN QAdd(config.glassesRx, config.shiftRx)
  ELSE Zero

HasCorrectiveLens(config) ==
  IF config.lensMode = "manual" THEN QGt(QAbs(CorrectivePower(config)), Eps6)
  ELSE config.lensMode = "prescription"

\* drawSimulation: the image the corrective lens forms, when there is one
FirstImage(config) ==
  IF HasCorrectiveLens(config)
  THEN drawPrincipalRaysForLensWorld(ObjectTipY(config),
                                     QSub(CORRECTIVE_LENS_WORLD_X, config.objectDistance),
                                     config.objectDistance, CorrectivePower(config),
                                     CORRECTIVE_LENS_WORLD_X, OBJECT_VISUAL_HEIGHT_WORLD)
  ELSE NoImage

\* drawSimulation: the image the eye lens forms, of image1 or of the object
FinalImage(config, image1, P_eye_actual_D, K) ==
  IF HasCorrectiveLens(config)
  THEN IF image1.formed
       THEN drawPrincipalRaysForLensWorld(image1.y_tip_w, image1.x_w,
                                          QSub(EYE_LENS_WORLD_X(K), image1.x_w),
                                          P_eye_actual_D, EYE_LENS_WORLD_X(K), image1.h_m)
       ELSE NoImage
  ELSE drawPrincipalRaysForLensWorld(ObjectTipY(config),
                                     QSub(CORRECTIVE_LENS_WORLD_X, config.objectDistance),
                                     QSub(EYE_LENS_WORLD_X(K),
                                          QSub(CORRECTIVE_LENS_WORLD_X, config.objectDistance)),
                                     P_eye_actual_D, EYE_LENS_WORLD_X(K),
                                     OBJECT_VISUAL_HEIGHT_WORLD)

\* drawSimulation: what is on the canvas and in #infoDisplay at its end
LegacyShown(config, image1, finalImageProperties, P_eye_actual_D, K) ==
  [drawn |-> TRUE, config |-> config,
   panels |-> << Panel([object |-> [x |-> QSub(CORRECTIVE_LENS_WORLD_X, config.objectDistance),
                                    h |-> OBJECT_VISUAL_HEIGHT_WORLD],
                        glasses |-> [x |-> CORRECTIVE_LENS_WORLD_X, P |-> CorrectivePower(config)],
                        eye |-> [x |-> EYE_LENS_WORLD_X(K), P |-> P_eye_actual_D],
                        hasCorrectiveLens |-> HasCorrectiveLens(config),
                        image1 |-> image1, finalImage |-> finalImageProperties],
                       IF finalImageProperties.formed THEN finalImageProperties.x_w
                       ELSE Undefined,
                       IF finalImageProperties.formed THEN finalImageProperties.h_m
                       ELSE Undefined,
                       RETINA_WORLD_X(K), <<>>,
                       LegacyInfoText(finalImageProperties,
                                      HasCorrectiveLens(config) /\ ~image1.formed, K),
                       NoView) >>]

\* drawSimulation, from the second stage on
LegacyStage2(config, image1, P_eye_actual_D, K) ==
  LegacyShown(config, image1, FinalImage(config, image1, P_eye_actual_D, K), P_eye_actual_D, K)

\* drawSimulation(config)
drawSimulation(config, K) ==
  LegacyStage2(config, FirstImage(config),
               QAdd(K.p_emmetropic_eye_lens_power_D, config.inherentError), K)

\* requestRedraw of the two-stage simulator
LegacyDraw(c, K) == drawSimulation(LegacyConfig(c), K)

OffsetTexts == { Zero, Q(1, 100) }

ShiftTexts == { Zero, Q(1, 4) }

LegacyControls0 ==
  [inherentError |-> Zero, objectDistance |-> One, objectYOffset |-> Zero,
   lensMode |-> "uncorrected", manualLensPower |-> Zero, glassesRx |-> Zero,
   shiftRx |-> Zero]

\* an 'input' or 'change' event of a control: the listener is requestRedraw
\* (toggleLensModeControlsAndRedraw disables the inputs of the other modes)
LegacyInput ==
  /\ page = "legacy"
  /\ \/ \E v \in ErrorTexts : ctl' = [ctl EXCEPT !.inherentError = v]
     \/ \E v \in DistanceTexts : ctl' = [ctl EXCEPT !.objectDistance = v]
     \/ \E v \in OffsetTexts : ctl' = [ctl EXCEPT !.objectYOffset = v]
     \/ /\ ctl.lensMode = "manual"
        /\ \E v \in PowerTexts : ctl' = [ctl EXCEPT !.manualLensPower = v]
     \/ /\ ctl.lensMode = "prescription"
        /\ \/ \E v \in PowerTexts : ctl' = [ctl EXCEPT !.glassesRx = v]
           \/ \E v \in ShiftTexts : ctl' = [ctl EXCEPT !.shiftRx = v]
     \/ \E m \in {"uncorrected", "manual", "prescription"} : ctl' = [ctl EXCEPT !.lensMode = m]
  /\ out' = LegacyDraw(ctl', consts)
  /\ UNCHANGED <<page, sw, consts, dom, lensVars, viewVars, game>>

\* the first redraw, when the page has loaded
LegacyFirstDraw ==
  /\ page = "legacy"
  /\ ~out.drawn
  /\ out' = LegacyDraw(ctl, consts)
  /\ UNCHANGED <<page, sw, consts, dom, lensVars, viewVars, ctl, game>>

----------------------------------------------------------------------------
(* game_diagram.js and game_logic.js: the spoiler diagrams of the game *)

GAME_PIXELS_PER_METER == 20000

\* a scene builder for the game whose eye does not accommodate
getSceneDataForGame_Relaxed(config, K) ==
  LET u_obj == K.game_object_distance_m
      h_obj == Q(1, 100)
      P_eye_actual == QAdd(K.p_emmetropic_eye_lens_power_D, config.patient_error_D)
      v_final == QDiv(One, QAdd(config.test_lens_D, P_eye_actual))
  IN  [object |-> [x |-> QNeg(u_obj), h |-> h_obj],
       glasses |-> [x |-> QNeg(K.corrective_lens_to_eye_lens_distance_m), P |-> config.test_lens_D],
       eye |-> [x |-> Zero, P |-> P_eye_actual],
       finalImage |-> [x |-> v_final, h |-> QMul(h_obj, QDiv(v_final, u_obj))],
       retina |-> [x |-> K.d_retina_fixed_m]]

\* getSceneDataForGame(config)
getSceneDataForGame(config, K) ==
  LET u_obj == K.game_object_distance_m
      h_obj == Q(1, 100)
      u_obj_inv == QDiv(One, u_obj)
      P_accom == u_obj_inv
      P_eye_actual == QAdd(QAdd(K.p_emmetropic_eye_lens_power_D, config.patient_error_D), P_accom)
      P_total == QAdd(config.test_lens_D, P_eye_actual)
      v_final == QDiv(One, QSub(P_total, u_obj_inv))
      m_final == QDiv(v_final, u_obj)
      h_final == QMul(h_obj, m_final)
  IN  [object |-> [x |-> QNeg(u_obj), h |-> h_obj],
       glasses |-> [x |-> QNeg(K.corrective_lens_to_eye_lens_distance_m), P |-> config.test_lens_D],
       eye |-> [x |-> Zero, P |-> P_eye_actual],
       finalImage |-> [x |-> v_final, h |-> h_final],
       retina |-> [x |-> K.d_retina_fixed_m]]

\* drawGameRays(ctx, scene, currentZoom): one ray, drawn to where the
\* recurrence takes it
drawGameRays(scene) ==
  LET PPM == <<GAME_PIXELS_PER_METER, 1>>
      obj_x == QMul(scene.object.x, PPM)
      obj_h == QMul(QNeg(scene.object.h), PPM)
      glasses_x == QMul(scene.glasses.x, PPM)
      eye_x == QMul(scene.eye.x, PPM)
      final_img_x == QMul(scene.finalImage.x, PPM)
      final_img_h == QMul(QNeg(scene.finalImage.h), PPM)
      ray == [y |-> obj_h, slope |-> Zero]
  IN  [rays |-> << TraceRay(ray, obj_x, glasses_x, eye_x, final_img_x,
                            scene.glasses.P, scene.eye.P, PPM, Undefined) >>,
       PPM |-> PPM,
       final_img_x |-> final_img_x,
       final_img_h |-> final_img_h,
       marker |-> IsFinite(final_img_x)]

\* drawGameScene: the text it returns
GameInfoText(scene) ==
  LET blur == QSub(scene.finalImage.x, scene.retina.x)
  IN  IF QLt(QAbs(blur), Q(1, 10000))
      THEN Info("sharp", Undefined, "")
      ELSE Info("blurred", toFixed(QAbs(QMul(blur, <<1000, 1>>)), 3),
                IF QLt(blur, Zero) THEN "before" ELSE "after")

\* drawGameScene with no view: zoom, panX and panY of the auto-zoom
GameFit(minX, maxX, zoom) ==
  [zoom |-> zoom,
   panX |-> QAdd(QMul(QMul(QNeg(minX), <<GAME_PIXELS_PER_METER, 1>>), zoom),
                 Q(canvasWidth * 5, 100)),
   panY |-> Q(canvasHeight, 2)]

GameSpan(minX, maxX) ==
  GameFit(minX, maxX,
          QDiv(Q(canvasWidth * 9, 10),
               QMul(QSub(maxX, minX), <<GAME_PIXELS_PER_METER, 1>>)))

GameExtents(scene) == {scene.glasses.x, scene.eye.x, scene.retina.x, scene.finalImage.x}

GameAutoView(scene) ==
  GameSpan(QSub(MinOf(GameExtents(scene)), Q(1, 100)),
           QAdd(MaxOf(GameExtents(scene)), Q(1, 100)))

\* getSceneDataForGame and drawGameScene of one configuration, on a spoiler
\* canvas (no view is passed: auto-zoom)
GamePanel(config, K) ==
  LET scene == getSceneDataForGame(config, K)
  IN  Panel(scene, scene.finalImage.x, scene.finalImage.h, scene.retina.x,
            drawGameRays(scene), GameInfoText(scene), GameAutoView(scene))

\* the same on the detail canvas, drawn with detailView
DetailPanel(config, K) == [GamePanel(config, K) EXCEPT !.overview = NoView]

NoPanel == [finalX |-> Undefined]

\* what is typed into the two test-lens inputs, and the patients
FirstLensTexts == { Zero, Q(-60, 1) }

SecondLensTexts == { Zero, Q(2, 1) }

GamePatients == { Zero, Q(-2, 1) }

GameControls0 == [lens1Power |-> Zero, lens2Power |-> Zero, detailViewSelect |-> "1"]

\* the seconds a round lasts (set by the page, outside the scripts)
INITIAL_GAME_DURATION == 2

\* the runs of endGameDueToTime a round is followed for
MaxEndRuns == 2

\* The game page once startGameBtn has started the timer: the timer, the
\* requests in flight (askResult, submitResult: "none", "pending", or how
\* the last one ended), the test-lens powers the pending ask sent, the
\* patient's error the server holds and the one it has revealed, the
\* disabled states of the controls, the feedback text and what is shown;
\* started: the start screen has given way to the gameplay screen;
\* intervals: the setInterval timers not yet cleared (timerOn: the one
\* timerInterval refers to is among them); endRuns: the calls of
\* endGameDueToTime so far; guessSent: the guess in the body of the last
\* submit_guess request
Game0(patient, guessShown) ==
  [started |-> TRUE, intervals |-> 1, endRuns |-> 0, guessSent |-> Undefined,
   asking |-> FALSE, lens1 |-> Zero, lens2 |-> Zero,
   patient |-> patient, lastPatientError |-> Undefined,
   timeLeft |-> INITIAL_GAME_DURATION, timerOn |-> TRUE, timerDisplay |-> "remaining",
   askResult |-> "none", submitResult |-> "none",
   askDisabled |-> FALSE, lensDisabled |-> FALSE,
   submitDisabled |-> FALSE, guessDisabled |-> FALSE,
   feedback |-> "", spoilerToggleShown |-> FALSE,
   finalGuessShown |-> guessShown, resultsShown |-> FALSE]

\* setControlsState(disabled)
setControlsState(g, disabled) ==
  [g EXCEPT !.askDisabled = disabled, !.lensDisabled = disabled]

\* endGameDueToTime()
endGameDueToTime(g) ==
  [setControlsState(g, TRUE) EXCEPT !.timerOn = FALSE,
                                    !.intervals = IF g.timerOn THEN @ - 1 ELSE @,
                                    !.endRuns = @ + 1,
                                    !.timerDisplay = "Time's Up!",
                                    !.finalGuessShown = TRUE]

\* requestDetailViewRedraw: the diagram on the detail canvas
requestDetailViewRedraw(c, lastPatientError, detail, K) ==
  IF lastPatientError = Undefined \/ lastPatientError = Zero \/ IsNaN(lastPatientError)
  THEN detail
  ELSE LET lensPower == IF c.detailViewSelect = "1"
                        THEN parseFloatSafe(c.lens1Power, Zero)
                        ELSE parseFloatSafe(c.lens2Power, Zero)
       IN  DetailPanel([patient_error_D |-> lastPatientError, test_lens_D |-> lensPower], K)

\* typing into a test-lens input: no listener
GameType ==
  /\ page = "game"
  /\ game.started
  /\ ~game.lensDisabled
  /\ \/ \E v \in FirstLensTexts : ctl' = [ctl EXCEPT !.lens1Power = v]
     \/ \E v \in SecondLensTexts : ctl' = [ctl EXCEPT !.lens2Power = v]
  /\ UNCHANGED <<page, sw, consts, dom, lensVars, viewVars, out, game>>

\* click on a sign-toggle button of a test lens
GameSignToggle ==
  /\ page = "game"
  /\ ~game.lensDisabled
  /\ \/ ctl' = [ctl EXCEPT !.lens1Power = QMul(parseFloatSafe(@, Zero), Q(-1, 1))]
     \/ ctl' = [ctl EXCEPT !.lens2Power = QMul(parseFloatSafe(@, Zero), Q(-1, 1))]
  /\ UNCHANGED <<page, sw, consts, dom, lensVars, viewVars, out, game>>

\* 'change' of a detailViewSelect radio
GameSelectDetail ==
  /\ page = "game"
  /\ \E r \in {"1", "2"} : ctl' = [ctl EXCEPT !.detailViewSelect = r]
  /\ out' = [out EXCEPT !.detail = requestDetailViewRedraw(ctl', game.lastPatientError, @, consts)]
  /\ UNCHANGED <<page, sw, consts, dom, lensVars, viewVars, game>>

\* click on askPatientBtn, up to the fetch
GameAsk ==
  /\ page = "game"
  /\ game.started
  /\ ~game.askDisabled
  /\ ~game.asking
  /\ game' = [game EXCEPT !.asking = TRUE, !.askResult = "pending",
                          !.askDisabled = TRUE, !.feedback = "Asking patient...",
                          !.lens1 = parseFloatSafe(ctl.lens1Power, Zero),
                          !.lens2 = parseFloatSafe(ctl.lens2Power, Zero)]
  /\ UNCHANGED <<page, sw, consts, dom, lensVars, viewVars, ctl, out>>

\* the canvases after a response with patient_error_D: the two spoiler
\* diagrams of the lenses that were sent, and the detail view
Revealed(lens1, lens2, patient_error_D, c, detail, K) ==
  [drawn |-> TRUE,
   panels |-> << GamePanel([patient_error_D |-> patient_error_D, test_lens_D |-> lens1], K),
                 GamePanel([patient_error_D |-> patient_error_D, test_lens_D |-> lens2], K) >>,
   detail |-> requestDetailViewRedraw(c, patient_error_D, detail, K)]

\* the finally clause of the ask listener
AskFinally(g) ==
  [g EXCEPT !.asking = FALSE, !.lens1 = Zero, !.lens2 = Zero,
            !.askDisabled = IF g.timeLeft > 0 THEN FALSE ELSE @]

\* the ask listener from the moment the fetch settles.  result is
\* "rejected" (no response), "notOk" (a response with an error status),
\* or "ok"; an ok response carries patient_error_D or not (revealed), and a
\* remaining_time that is <= 0 or not (serverTimeUp)
AskSettled(g, result, revealed, serverTimeUp) ==
  IF result # "ok"
  THEN AskFinally([g EXCEPT !.askResult = result, !.feedback = "Network error"])
  ELSE LET shown == [g EXCEPT !.askResult = result, !.feedback = "Patient says",
                              !.lastPatientError = IF revealed THEN g.patient ELSE @,
                              !.spoilerToggleShown = IF revealed THEN TRUE ELSE @]
       IN  AskFinally(IF serverTimeUp /\ g.timeLeft > 0 THEN endGameDueToTime(shown)
                      ELSE shown)

\* the canvases the ask listener leaves
AskDrawn(g, result, revealed, c, o, K) ==
  IF result = "ok" /\ revealed
  THEN Revealed(g.lens1, g.lens2, g.patient, c, o.detail, K)
  ELSE o

\* the response with the patient's error arrives: the two spoiler diagrams,
\* their captions, and the detail view
GameAnswer ==
  /\ page = "game"
  /\ game.asking
  /\ game' = AskSettled(game, "ok", TRUE, FALSE)
  /\ out' = AskDrawn(game, "ok", TRUE, ctl, out, consts)
  /\ UNCHANGED <<page, sw, consts, dom, lensVars, viewVars, ctl>>

InitScene ==
  /\ page \in {"sim", "legacy", "game"}
  /\ sw = NoWorker
  /\ consts \in StandardConstants
  /\ dom = DomReady(page)
  /\ lensIn = [u |-> Zero, h |-> Zero, P |-> Zero]
  /\ lensOut = NoLens
  /\ ctl = (IF page = "sim" THEN SimControls0
            ELSE IF page = "legacy" THEN LegacyControls0 ELSE GameControls0)
  /\ out = [drawn |-> FALSE, panels |-> <<>>, detail |-> NoPanel]
  /\ IF page = "game"
     THEN \E e \in GamePatients :
            game = Game0(e, FALSE)
     ELSE game = NoGame
  /\ view = View0(page)
  /\ pan = NoPan
  /\ ev = NoEvent
  /\ nEvents = 0

NextScene ==
  \/ SimInput \/ SimFirstDraw
  \/ LegacyInput \/ LegacyFirstDraw
  \/ GameType \/ GameSignToggle \/ GameSelectDetail \/ GameAsk \/ GameAnswer

SpecScene == InitScene /\ [][NextScene]_vars

----------------------------------------------------------------------------
(* Pan and zoom of the detail canvas: simulator_controls.js 310-345,
   game_logic.js 221-260, part_001 419-459 *)

MaxEvents == 2

\* A mouse event over the canvas: the pointer in the viewport, and the
\* canvas's bounding rectangle there (it moves when the page scrolls).  The
\* last one has the pointer on the top pixel row of the viewport.
CanvasPointers ==
  { [clientX |-> 400, clientY |-> 225, left |-> 0, top |-> 0],
    [clientX |-> 100, clientY |-> 300, left |-> 8, top |-> 60],
    [clientX |-> 100, clientY |-> 0, left |-> 8, top |-> -120] }

\* A click on a zoom button: with the mouse, the pointer is on the button
\* below the canvas; from the keyboard, the event's coordinates are 0, 0
ButtonPointers ==
  { [clientX |-> 60, clientY |-> 540, left |-> 8, top |-> 60, keyboard |-> FALSE],
    [clientX |-> 0, clientY |-> 0, left |-> 8, top |-> 60, keyboard |-> TRUE] }

\* the pointer's pixel on the canvas
CursorX(e) == Q(e.clientX - e.left, 1)

CursorY(e) == Q(e.clientY - e.top, 1)

\* the record of a zoom event
ZoomEvent(kind, e, before, after) ==
  [kind |-> kind, cursorX |-> CursorX(e), cursorY |-> CursorY(e),
   before |-> before, after |-> after]

\* the new pan that keeps the world point under (mouseX, mouseY) where it is;
\* flip is -1 where the canvas is drawn with scale(zoom, -zoom)
PanAbout(v, mouseX, mouseY, zoom, flip) ==
  View(zoom,
       QSub(mouseX, QMul(QDiv(QSub(mouseX, v.panX), v.zoom), zoom)),
       QSub(mouseY, QMul(QDiv(QSub(mouseY, v.panY), QMul(flip, v.zoom)), QMul(flip, zoom))))

\* e.clientX ? e.clientX - rect.left : canvasWidth / 2
MouseXOr(e) == IF e.clientX # 0 THEN CursorX(e) ELSE Q(canvasWidth, 2)

MouseYOr(e) == IF e.clientY # 0 THEN CursorY(e) ELSE Q(canvasHeight, 2)

\* simulator_controls.js: zoomDetail(factor, e)
zoomDetail(v, factor, e) ==
  PanAbout(v, MouseXOr(e), MouseYOr(e),
           QMax(Q(1, 100), QMin(QMul(v.zoom, factor), Q(1000, 1))), Q(-1, 1))

\* game_logic.js: zoomDetailView(factor, e)
zoomDetailView(v, factor, e) ==
  PanAbout(v, MouseXOr(e), MouseYOr(e), QMul(v.zoom, factor), Q(-1, 1))

\* part_001: the wheel listener
LegacyWheelZoom(v, scroll, e) ==
  PanAbout(v, CursorX(e), CursorY(e),
           QMax(Q(2, 100), QMin(QMul(v.zoom, scroll), Q(50, 1))), One)

\* the redraw a view handler ends with: requestRedraw in the simulator,
\* requestDetailViewRedraw in the game; part_001 calls requestRedrawIfNeeded,
\* which no file of the repository defines, so the canvas may or may not be
\* redrawn
Redrawn ==
  IF page = "sim" THEN out' = SimDraw(ctl, consts, view')
  ELSE IF page = "game"
  THEN out' = [out EXCEPT !.detail = requestDetailViewRedraw(ctl, game.lastPatientError,
                                                             @, consts)]
  ELSE out' \in {out, LegacyDraw(ctl, consts)}

\* 'wheel' on the detail canvas
Wheel ==
  /\ nEvents < MaxEvents
  /\ \E e \in CanvasPointers, zoomIn \in BOOLEAN :
        /\ view' = (IF page = "sim"
                    THEN zoomDetail(view, IF zoomIn THEN Q(6, 5) ELSE Q(5, 6), e)
                    ELSE IF page = "game"
                    THEN zoomDetailView(view, IF zoomIn THEN Q(6, 5) ELSE Q(5, 6), e)
                    ELSE LegacyWheelZoom(view, IF zoomIn THEN Q(21, 20) ELSE Q(19, 20), e))
        /\ ev' = ZoomEvent("wheel", e, view, view')
  /\ nEvents' = nEvents + 1
  /\ Redrawn
  /\ UNCHANGED <<page, sw, consts, dom, lensVars, ctl, game, pan>>

\* 'click' on the zoom-in or the zoom-out button (the two-stage simulator
\* has none)
ZoomButton ==
  /\ page \in {"sim", "game"}
  /\ nEvents < MaxEvents
  /\ \E e \in ButtonPointers, zoomIn \in BOOLEAN :
        /\ view' = (IF page = "sim"
                    THEN zoomDetail(view, IF zoomIn THEN Q(3, 2) ELSE Q(2, 3), e)
                    ELSE zoomDetailView(view, IF zoomIn THEN Q(3, 2) ELSE Q(2, 3), e))
        /\ ev' = ZoomEvent(IF e.keyboard THEN "key" ELSE "click", e, view, view')
  /\ nEvents' = nEvents + 1
  /\ Redrawn
  /\ UNCHANGED <<page, sw, consts, dom, lensVars, ctl, game, pan>>

\* 'mousedown' on the detail canvas
MouseDown ==
  /\ \E e \in CanvasPointers :
        pan' = [isPanning |-> TRUE, lastX |-> Q(e.clientX, 1), lastY |-> Q(e.clientY, 1),
                cursor |-> "grabbing"]
  /\ UNCHANGED <<page, sw, consts, dom, lensVars, sceneVars, view, ev, nEvents>>

\* a listener that pans on every move of the pointer
mousemove_Always(v, p, e) ==
  IF p.lastX = Undefined THEN v
  ELSE View(v.zoom,
            QAdd(v.panX, QSub(Q(e.clientX, 1), p.lastX)),
            QAdd(v.panY, QSub(Q(e.clientY, 1), p.lastY)))

\* the 'mousemove' listener: the view it leaves
mousemove(v, p, e) ==
  IF ~p.isPanning THEN v
  ELSE View(v.zoom,
            QAdd(v.panX, QSub(Q(e.clientX, 1), p.lastX)),
            QAdd(v.panY, QSub(Q(e.clientY, 1), p.lastY)))

\* 'mousemove' on the detail canvas: the listener returns at once unless a
\* drag is in progress
MouseMove ==
  /\ nEvents < MaxEvents
  /\ \E e \in CanvasPointers :
        /\ view' = mousemove(view, pan, e)
        /\ pan' = (IF pan.isPanning
                   THEN [pan EXCEPT !.lastX = Q(e.clientX, 1), !.lastY = Q(e.clientY, 1)]
                   ELSE pan)
  /\ IF pan.isPanning
     THEN nEvents' = nEvents + 1 /\ Redrawn
     ELSE UNCHANGED <<nEvents, out>>
  /\ UNCHANGED <<page, sw, consts, dom, lensVars, ctl, game, ev>>

\* 'mouseup' on the detail canvas
MouseUp ==
  /\ pan' = [pan EXCEPT !.isPanning = FALSE, !.cursor = "grab"]
  /\ UNCHANGED <<page, sw, consts, dom, lensVars, sceneVars, view, ev, nEvents>>

\* 'mouseleave' on the detail canvas
MouseLeave ==
  /\ pan' = [pan EXCEPT !.isPanning = FALSE,
                        !.cursor = IF page = "legacy" THEN "default" ELSE "grab"]
  /\ UNCHANGED <<page, sw, consts, dom, lensVars, sceneVars, view, ev, nEvents>>

\* a change of configuration while the detail view is in use: the lens-mode
\* radios of the simulator, the detailViewSelect radios of the game
ViewConfig ==
  /\ page \in {"sim", "game"}
  /\ IF page = "sim"
     THEN /\ \E m \in {"uncorrected", "glasses"} : ctl' = [ctl EXCEPT !.lensMode = m]
          /\ out' = SimDraw(ctl', consts, view)
     ELSE /\ \E r \in {"1", "2"} : ctl' = [ctl EXCEPT !.detailViewSelect = r]
          /\ out' = [out EXCEPT !.detail = requestDetailViewRedraw(ctl', game.lastPatientError,
                                                                   @, consts)]
  /\ UNCHANGED <<page, sw, consts, dom, lensVars, viewVars, game>>

\* The views a page can be in when the events of the model begin: the view
\* it is constructed with and, in the simulator, the views 9 and 10 zoom-in
\* clicks and 19 zoom-out clicks from the keyboard lead to (they keep the pan
\* at the centre); in the game, the view after 3 such zoom-in clicks; in the
\* two-stage simulator, the view at the upper bound, after 95 wheel steps at
\* the centre.
StartViews ==
  IF page = "sim"
  THEN { CentredView(Q(20, 1)), CentredView(Q(98415, 128)), CentredView(Q(1000, 1)),
         CentredView(Q(1, 100)) }
  ELSE IF page = "game"
  THEN { CentredView(Q(200, 1)), CentredView(Q(675, 1)) }
  ELSE { CentredView(Q(1, 2)), CentredView(Q(50, 1)) }

InitView ==
  /\ page \in {"sim", "legacy", "game"}
  /\ sw = NoWorker
  /\ consts \in { K \in StandardConstants :
                   K.corrective_lens_to_eye_lens_distance_m = Q(12, 1000) }
  /\ dom = DomReady(page)
  /\ lensIn = [u |-> Zero, h |-> Zero, P |-> Zero]
  /\ lensOut = NoLens
  /\ ctl = (IF page = "sim" THEN SimControls0
            ELSE IF page = "legacy" THEN LegacyControls0 ELSE GameControls0)
  /\ IF page = "game"
     THEN \E revealed \in BOOLEAN :
            /\ game = (IF revealed
                       THEN AskSettled(Game0(Q(-2, 1), FALSE), "ok", TRUE, FALSE)
                       ELSE Game0(Q(-2, 1), FALSE))
            /\ out = (IF revealed
                      THEN Revealed(Zero, Zero, Q(-2, 1), ctl, NoPanel, consts)
                      ELSE [drawn |-> FALSE, panels |-> <<>>, detail |-> NoPanel])
     ELSE /\ game = NoGame
          /\ out = [drawn |-> FALSE, panels |-> <<>>, detail |-> NoPanel]
  /\ view \in StartViews
  /\ pan = NoPan
  /\ ev = NoEvent
  /\ nEvents = 0

NextView ==
  Wheel \/ ZoomButton \/ MouseDown \/ MouseMove \/ MouseUp \/ MouseLeave \/ ViewConfig

SpecView == InitView /\ [][NextView]_vars

-----------------------------------------------------------------------------
(* The game round: the timer, ask_patient and submit_guess *)

\* click on startGameBtn: the start screen is hidden, the gameplay screen
\* shown, and startTimer sets the interval going.  The button is on the
\* start screen, so it takes no click once that screen is hidden.
GameStart ==
  /\ page = "game"
  /\ ~game.started
  /\ game' = [game EXCEPT !.started = TRUE, !.timerOn = TRUE, !.intervals = @ + 1,
                          !.timerDisplay = "remaining"]
  /\ UNCHANGED <<page, sw, consts, dom, lensVars, viewVars, ctl, out>>

\* text that is not a number typed into a test-lens input: no listener
GameMistype ==
  /\ page = "game"
  /\ game.started
  /\ ~game.lensDisabled
  /\ \E f \in {"lens1Power", "lens2Power"} : ctl' = [ctl EXCEPT ![f] = NotANumberText]
  /\ UNCHANGED <<page, sw, consts, dom, lensVars, viewVars, out, game>>

\* the setInterval callback of startTimer
GameTick ==
  /\ page = "game"
  /\ game.intervals > 0
  /\ game' = (IF game.timeLeft - 1 <= 0
              THEN endGameDueToTime([game EXCEPT !.timeLeft = @ - 1])
              ELSE [game EXCEPT !.timeLeft = @ - 1])
  /\ UNCHANGED <<page, sw, consts, dom, lensVars, viewVars, ctl, out>>

\* the fetch of ask_patient settles: the rest of the ask listener
GameAskSettle ==
  /\ page = "game"
  /\ game.asking
  /\ \E result \in {"ok", "notOk", "rejected"}, revealed \in BOOLEAN, serverTimeUp \in BOOLEAN :
        /\ (result # "ok") => (~revealed /\ ~serverTimeUp)
        /\ serverTimeUp => game.endRuns < MaxEndRuns
        /\ game' = AskSettled(game, result, revealed, serverTimeUp)
        /\ out' = AskDrawn(game, result, revealed, ctl, out, consts)
  /\ UNCHANGED <<page, sw, consts, dom, lensVars, viewVars, ctl>>

\* what the final-guess input can hold when the button is clicked
GuessTexts == {Q(-2, 1), NotANumberText}

\* click on submitGuessBtn, up to the fetch: the body carries the value of
\* the final-guess input as it stands
GameSubmit ==
  /\ page = "game"
  /\ game.started
  /\ game.finalGuessShown
  /\ ~game.submitDisabled
  /\ \E finalPrescriptionGuess \in GuessTexts :
        game' = [game EXCEPT !.submitDisabled = TRUE, !.guessDisabled = TRUE,
                             !.timerOn = FALSE,
                             !.intervals = IF game.timerOn THEN @ - 1 ELSE @,
                             !.submitResult = "pending",
                             !.guessSent = finalPrescriptionGuess]
  /\ UNCHANGED <<page, sw, consts, dom, lensVars, viewVars, ctl, out>>

\* the controls of the guess, enabled again if time is left
GuessRetry(g) ==
  IF g.timeLeft > 0
  THEN [g EXCEPT !.submitDisabled = FALSE, !.guessDisabled = FALSE]
  ELSE g

\* the submit listener from the moment the fetch settles.  result is
\* "rejected" (no response, or a body that is not JSON), "notOk" (an error
\* status with a JSON body) or "ok"
SubmitSettled(g, result) ==
  IF result = "ok"
  THEN setControlsState([g EXCEPT !.submitResult = result, !.resultsShown = TRUE,
                                  !.finalGuessShown = FALSE], TRUE)
  ELSE IF result = "notOk"
  THEN GuessRetry([g EXCEPT !.submitResult = result,
                            !.feedback = IF g.timeLeft <= 0
                                         THEN "Time's up! Your guess was not submitted in time."
                                         ELSE "Error submitting"])
  ELSE GuessRetry([g EXCEPT !.submitResult = result,
                            !.feedback = IF g.timeLeft <= 0 THEN "Time's up!"
                                         ELSE "Network error"])

\* the fetch of submit_guess settles
GameSubmitSettle ==
  /\ page = "game"
  /\ game.submitResult = "pending"
  /\ \E result \in {"ok", "notOk", "rejected"} : game' = SubmitSettled(game, result)
  /\ UNCHANGED <<page, sw, consts, dom, lensVars, viewVars, ctl, out>>

\* The page shows the start screen until startGameBtn is clicked.  Whether
\* the final-guess section is visible during play is set by the page's markup.
InitGame ==
  /\ page = "game"
  /\ sw = NoWorker
  /\ consts \in { K \in StandardConstants :
                   K.corrective_lens_to_eye_lens_distance_m = Q(12, 1000) }
  /\ dom = DomReady(page)
  /\ lensIn = [u |-> Zero, h |-> Zero, P |-> Zero]
  /\ lensOut = NoLens
  /\ ctl = GameControls0
  /\ out = [drawn |-> FALSE, panels |-> <<>>, detail |-> NoPanel]
  /\ \E e \in GamePatients, guessShown \in BOOLEAN :
        game = [Game0(e, guessShown) EXCEPT !.started = FALSE, !.timerOn = FALSE,
                                            !.intervals = 0]
  /\ view = View0(page)
  /\ pan = NoPan
  /\ ev = NoEvent
  /\ nEvents = 0

NextGame ==
  \/ GameStart \/ GameTick \/ GameType \/ GameMistype \/ GameAsk \/ GameAskSettle
  \/ GameSubmit \/ GameSubmitSettle

SpecGame == InitGame /\ [][NextGame]_vars

-----------------------------------------------------------------------------
(* Loading a simulator page, with or without what it needs to draw *)

MaxTimers == 3

\* the page before its scripts run: its canvases have a 2D context or not
DomUnloaded(hasCtx) ==
  [loaded |-> FALSE, ctx |-> hasCtx, drawReady |-> FALSE, timers |-> 0,
   alert |-> "", placeholder |-> ""]

\* simulator_controls.js: the two DOMContentLoaded listeners.  The first
\* ends with requestRedraw(), which finds no drawSimulation and sets a
\* timer; the second returns before it defines drawSimulation when
\* OPTICAL_CONSTANTS or a canvas context is missing, and sets a timer at its
\* end otherwise
SimLoaded(d, K) ==
  IF K = NoConstants
  THEN [d EXCEPT !.loaded = TRUE, !.timers = 1,
                 !.alert = "CRITICAL ERROR: Optical constants not loaded."]
  ELSE IF ~d.ctx
  THEN [d EXCEPT !.loaded = TRUE, !.timers = 1]
  ELSE [d EXCEPT !.loaded = TRUE, !.timers = 2, !.drawReady = TRUE]

\* part_001 at load, then the initial setup of its controls: the alerts of
\* part_001, and the constants initialized or not
LegacyLoaded(d, K) ==
  [d EXCEPT !.loaded = TRUE,
            !.drawReady = (K # NoConstants),
            !.alert = IF ~d.ctx
                      THEN "CRITICAL ERROR: Canvas context could not be initialized. Simulator cannot run."
                      ELSE IF K = NoConstants
                      THEN "CRITICAL ERROR: Optical constants not loaded. Simulator cannot run. Check HTML template and console."
                      ELSE ""]

\* the legacy requestRedraw and drawSimulation: nothing is drawn while the
\* constants fail to initialize or the context is missing
LegacyRequested(c, K, d, o) ==
  IF K = NoConstants \/ ~d.ctx THEN o ELSE LegacyDraw(c, K)

\* DOMContentLoaded
PageLoad ==
  /\ ~dom.loaded
  /\ IF page = "sim"
     THEN dom' = SimLoaded(dom, consts) /\ out' = out
     ELSE /\ dom' = LegacyLoaded(dom, consts)
          /\ out' = LegacyRequested(ctl, consts, dom, out)
  /\ UNCHANGED <<page, sw, consts, lensVars, viewVars, ctl, game>>

\* requestRedraw of the simulator: the retry timer while drawSimulation is
\* not defined, the drawing otherwise
SimRequested(c, K, d, o, v) == IF d.drawReady THEN SimDraw(c, K, v) ELSE o

SimRetryTimers(d) == IF d.drawReady THEN d ELSE [d EXCEPT !.timers = @ + 1]

\* an event of a control that calls requestRedraw: the inherent error is
\* typed, a lens-mode radio is chosen, or the event leaves the controls as
\* they are (the update button, an 'input' event with the value unchanged)
LoadRedraw ==
  /\ dom.loaded
  /\ dom.timers < MaxTimers
  /\ \/ \E v \in ErrorTexts : ctl' = [ctl EXCEPT !.inherentError = v]
     \/ \E m \in (IF page = "sim" THEN {"uncorrected", "glasses"}
                   ELSE {"uncorrected", "manual", "prescription"}) :
          ctl' = [ctl EXCEPT !.lensMode = m]
     \/ ctl' = ctl
  /\ IF page = "sim"
     THEN /\ out' = SimRequested(ctl', consts, dom, out, view)
          /\ dom' = SimRetryTimers(dom)
     ELSE /\ out' = LegacyRequested(ctl', consts, dom, out)
          /\ dom' = dom
  /\ UNCHANGED <<page, sw, consts, lensVars, viewVars, game>>

\* The page as the browser has built it, before its scripts run: the
\* template has supplied OPTICAL_CONSTANTS or not, and the canvases have a
\* 2D context or not
InitLoad ==
  /\ page \in {"sim", "legacy"}
  /\ sw = NoWorker
  /\ consts \in StandardConstants \cup {NoConstants}
  /\ \E hasCtx \in BOOLEAN : dom = DomUnloaded(hasCtx)
  /\ lensIn = [u |-> Zero, h |-> Zero, P |-> Zero]
  /\ lensOut = NoLens
  /\ ctl = (IF page = "sim" THEN SimControls0 ELSE LegacyControls0)
  /\ out = [drawn |-> FALSE, panels |-> <<>>, detail |-> NoPanel]
  /\ game = NoGame
  /\ view = View0(page)
  /\ pan = NoPan
  /\ ev = NoEvent
  /\ nEvents = 0

NextLoad == PageLoad \/ LoadRedraw \/ SimFirstDraw

SpecLoad == InitLoad /\ [][NextLoad]_vars

\* A timer that is set fires: the browser runs a pending setTimeout callback
\* once its 50 ms have passed.  (The callback of a timer set while
\* drawSimulation is undefined sets the next one and changes nothing else.)
\* SimFirstDraw is the only step that takes a timer off a page whose
\* drawSimulation is defined.
TimerFires ==
  /\ page = "sim"
  /\ dom.drawReady
  /\ dom.timers > 0
  /\ dom' = [dom EXCEPT !.timers = @ - 1]

LiveLoad == SpecLoad /\ WF_dom(TimerFires)

-----------------------------------------------------------------------------
(* The service worker (part_000): its fetch listener and its cache *)

\* the paths requested: one of the list the worker caches first, one not
URLS_TO_CACHE == {"/"}

Paths == {"/", "/plot"}

\* the fetch events a behaviour is followed for
MaxRequests == 3

\* Responses are numbered in the order the network delivers them; 0 is no
\* response (undefined).  After 'install' the cache holds response 1 for
\* every path of URLS_TO_CACHE (cache.addAll) and nothing else.
\* inflight: the fetch events whose network fetch is pending, each with the
\* last response the network had delivered for its path when the event
\* arrived (seen); puts: the cache.put calls not yet completed; lastOk: the
\* most recent response the network delivered to a GET of each path;
\* answer: what the last settled event was answered with.
Worker0 ==
  [cache |-> [p \in Paths |-> IF p \in URLS_TO_CACHE THEN 1 ELSE 0],
   served |-> 1, nRequests |-> 0, inflight |-> {}, puts |-> {},
   lastOk |-> [p \in Paths |-> 0],
   answer |-> [kind |-> "none"]]

\* caches.match(request): a cache is searched for GET requests only
CacheMatch(w, path, method) == IF method = "GET" THEN w.cache[path] ELSE 0

\* a fetch event arrives.  For a path of URLS_TO_CACHE the cache answers
\* if it has a match and the network is asked otherwise; for any other
\* path the network is asked first.
WorkerFetch ==
  /\ page = "worker"
  /\ sw.nRequests < MaxRequests
  /\ \E path \in Paths, method \in {"GET", "POST"} :
        IF path \in URLS_TO_CACHE /\ CacheMatch(sw, path, method) # 0
        THEN sw' = [sw EXCEPT !.nRequests = @ + 1,
                              !.answer = [kind |-> "cache", path |-> path, method |-> method,
                                          resp |-> CacheMatch(sw, path, method)]]
        ELSE sw' = [sw EXCEPT !.nRequests = @ + 1,
                              !.inflight = @ \cup {[id |-> sw.nRequests + 1, path |-> path,
                                                    method |-> method,
                                                    seen |-> sw.lastOk[path]]}]
  /\ UNCHANGED <<page, consts, dom, lensVars, sceneVars, viewVars>>

\* fetch(event.request) is fulfilled.  On the network-first path the
\* listener starts cache.put for a GET, does not wait for it, and answers
\* with the network's response.
NetworkResponds ==
  /\ page = "worker"
  /\ \E r \in sw.inflight :
        LET networkResponse == sw.served + 1
            answered == [sw EXCEPT !.served = networkResponse,
                                   !.inflight = @ \ {r},
                                   !.answer = [kind |-> "network", path |-> r.path,
                                               method |-> r.method,
                                               resp |-> networkResponse]]
        IN  IF r.path \in URLS_TO_CACHE \/ r.method # "GET"
            THEN sw' = answered
            ELSE sw' = [answered EXCEPT !.puts = @ \cup {[path |-> r.path,
                                                          resp |-> networkResponse]},
                                        !.lastOk[r.path] = networkResponse]
  /\ UNCHANGED <<page, consts, dom, lensVars, sceneVars, viewVars>>

\* fetch(event.request) is rejected.  On the network-first path the catch
\* answers with caches.match(event.request); a cache-first request that
\* went to the network has no catch.
NetworkFails ==
  /\ page = "worker"
  /\ \E r \in sw.inflight :
        sw' = [sw EXCEPT !.inflight = @ \ {r},
                         !.answer = IF r.path \in URLS_TO_CACHE
                                    THEN [kind |-> "error", path |-> r.path,
                                          method |-> r.method, resp |-> 0]
                                    ELSE [kind |-> "fallback", path |-> r.path,
                                          method |-> r.method,
                                          resp |-> CacheMatch(sw, r.path, r.method),
                                          seen |-> r.seen,
                                          lastOk |-> sw.lastOk[r.path]]]
  /\ UNCHANGED <<page, consts, dom, lensVars, sceneVars, viewVars>>

\* a cache.put completes: the entry of its path is replaced
PutCompletes ==
  /\ page = "worker"
  /\ \E w \in sw.puts :
        sw' = [sw EXCEPT !.puts = @ \ {w}, !.cache[w.path] = w.resp]
  /\ UNCHANGED <<page, consts, dom, lensVars, sceneVars, viewVars>>

\* the worker installed and activated
InitWorker ==
  /\ page = "worker"
  /\ sw = Worker0
  /\ consts = NoConstants
  /\ dom = NoDom
  /\ lensIn = [u |-> Zero, h |-> Zero, P |-> Zero]
  /\ lensOut = NoLens
  /\ ctl = NoControls
  /\ out = NoOutput
  /\ game = NoGame
  /\ view = NoView
  /\ pan = NoPan
  /\ ev = NoEvent
  /\ nEvents = 0

NextWorker == WorkerFetch \/ NetworkResponds \/ NetworkFails \/ PutCompletes

SpecWorker == InitWorker /\ [][NextWorker]_vars

----------------------------------------------------------------------------
(* The solver's result, whichever implementation returned it *)

Solved == lensOut.impl # "none"

ResV == IF lensOut.impl = "part_001" THEN lensOut.res.v_m ELSE lensOut.res.v

ResH == IF lensOut.impl = "part_001" THEN lensOut.res.h_img_m ELSE lensOut.res.h_img

ResMag == lensOut.res.mag

\* the cases the thin-lens identity is claimed for
NonDegenerate ==
  /\ QGt(QAbs(lensIn.P), Eps6)
  /\ IsFinite(lensIn.u) /\ QGt(lensIn.u, Zero)
  /\ ~QLt(QAbs(lensIn.u), Eps9)
  /\ ~QLt(QAbs(QSub(lensIn.P, QInv(lensIn.u))), Eps9)

\* C4: for |P| > 1e-6 and a finite object distance u > 0 that is neither at
\* the lens nor imaged at infinity, the returned image position v is finite
\* and P = 1/u + 1/v within 1e-6, for both implementations of the solver.
C4_ThinLensIdentity ==
  (Solved /\ NonDegenerate) =>
     /\ IsFinite(ResV)
     /\ QLt(QAbs(QSub(lensIn.P, QAdd(QInv(lensIn.u), QInv(ResV)))), Eps6)

\* a non-degenerate solve of part_001's solver for an object beyond 1e9 m,
\* whose vergence the solver takes as 0
C4_Witness ==
  /\ lensOut.impl = "part_001" /\ NonDegenerate
  /\ QGt(lensIn.u, Big9) /\ ResV = One

\* C5: for |P| < 1e-9 and finite d, h the solver returns position d, height h
\* and magnification 1.0.
C5_ZeroPowerPassThrough ==
  (Solved /\ QLt(QAbs(lensIn.P), Eps9) /\ IsFinite(lensIn.u)) =>
     /\ ResV = lensIn.u
     /\ ResH = lensIn.h
     /\ ResMag = One

----------------------------------------------------------------------------
(* The diagrams of the last redraw *)

Panels == { out.panels[i] : i \in DOMAIN out.panels }

\* the signed distance of the final image from the retina, in millimetres
OffsetMM(p) == QMul(QSub(p.finalX, p.retina), <<1000, 1>>)

\* the final image is within 0.05 mm of the retina
OnRetina(p) == QLt(QAbs(QSub(p.finalX, p.retina)), Q(5, 100000))

\* C3: in prescription mode with a prescription of 0 D and a shift of 0 D the
\* two-stage simulator shows the final image and the description it shows in
\* uncorrected mode.
C3_ZeroPrescriptionIsUncorrected ==
  (/\ page = "legacy" /\ out.drawn
   /\ out.config.lensMode = "prescription"
   /\ out.config.glassesRx = Zero /\ out.config.shiftRx = Zero) =>
     LET uncorrected == LegacyDraw([ctl EXCEPT !.lensMode = "uncorrected"], consts).panels[1]
     IN  /\ out.panels[1].finalX = uncorrected.finalX
         /\ out.panels[1].finalH = uncorrected.finalH
         /\ out.panels[1].infoText = uncorrected.infoText

\* the corrective lens of the redraw is a +2 D lens set by hand
ManualLensPlus2 ==
  \/ /\ page = "legacy" /\ out.config.lensMode = "manual"
     /\ out.config.manualLensPower = Q(2, 1)
  \/ /\ page = "sim" /\ out.config.lensMode = "glasses"
     /\ out.config.glassesRx = Q(2, 1)

\* C6: with an inherent error of -2 D and a lens of +2 D set by hand, the
\* simulator's final image is within 0.05 mm of the retina.
C6_CorrectedEyeFocuses ==
  (/\ page \in {"sim", "legacy"} /\ out.drawn
   /\ out.config.inherentError = Q(-2, 1) /\ ManualLensPlus2) =>
     \A p \in Panels : OnRetina(p)

\* C7: the emmetropic eye (inherent error 0) looking at an object 1 m away
\* without a corrective lens has its final image within 0.05 mm of the retina.
C7_EmmetropicEyeFocuses ==
  (/\ page \in {"sim", "legacy"} /\ out.drawn
   /\ out.config.inherentError = Zero /\ out.config.objectDistance = One
   /\ out.config.lensMode = "uncorrected") =>
     \A p \in Panels : OnRetina(p)

\* the rays of a diagram, as the set of their starting height and slope
RayStarts(p) == { <<p.rays.rays[i].y, p.rays.rays[i].slope>> : i \in DOMAIN p.rays.rays }

\* C8: a diagram of the simulator or of the game with a finite final image
\* has at least two distinct rays, and the slope recurrence takes each of
\* them to the image plane at the computed image height, within 1e-6 m.
C8_RaysMeetAtImage ==
  (page \in {"sim", "game"} /\ out.drawn) =>
     \A p \in Panels :
        (IsFinite(p.finalX) /\ IsFinite(p.finalH)) =>
           /\ Cardinality(RayStarts(p)) >= 2
           /\ \A i \in DOMAIN p.rays.rays :
                 QLe(QAbs(QDiv(QSub(p.rays.rays[i].final_y_endpoint, p.rays.final_img_h),
                               p.rays.PPM)),
                     Eps6)

\* the three quantities the two scene builders are compared on
SameImage(s, g) ==
  /\ s.eye.P = g.eye.P
  /\ s.finalImage.x = g.finalImage.x
  /\ s.finalImage.h = g.finalImage.h

\* C9: for equal inputs (the same error, the same lens power, the object at
\* the game's distance) getSceneDataForGame and getSceneData give the same
\* eye power, final image position and final image height.
C9_BuildersAgree ==
  out.drawn =>
     /\ page = "game" =>
          \A p \in Panels :
             SameImage(getSceneData([inherentError |-> game.patient,
                                     objectDistance |-> consts.game_object_distance_m,
                                     lensMode |-> "glasses",
                                     glassesRx |-> p.scene.glasses.P], consts),
                       p.scene)
     /\ (page = "sim" /\ out.config.objectDistance = consts.game_object_distance_m) =>
          \A p \in Panels :
             SameImage(p.scene,
                       getSceneDataForGame([patient_error_D |-> out.config.inherentError,
                                            test_lens_D |-> p.scene.glasses.P], consts))

\* the game has drawn the spoiler diagram of an ametropic patient behind a
\* test lens with power
C9_Witness ==
  /\ page = "game" /\ out.drawn
  /\ game.patient = Q(-2, 1)
  /\ out.panels[2].scene.glasses.P = Q(2, 1)
  /\ out.panels[2].scene.finalImage.x = consts.d_retina_fixed_m

\* the description of one diagram follows the 0.05 mm rule
DescribedByRule(p) ==
  IsFinite(p.finalX) =>
     /\ (p.infoText.kind = "sharp") <=> QLt(QAbs(OffsetMM(p)), Q(1, 20))
     /\ (p.infoText.kind # "sharp") =>
           /\ p.infoText.kind = "blurred"
           /\ QLt(OffsetMM(p), Zero) => p.infoText.side \in {"in front of", "before"}
           /\ QGt(OffsetMM(p), Zero) => p.infoText.side \in {"behind", "after"}
           /\ QLe(QAbs(QSub(p.infoText.mm, QAbs(OffsetMM(p)))), Q(1, 20))

\* C10: with offsetMM = (final image position - retina position) * 1000, the
\* description says sharply focused exactly when |offsetMM| < 0.05, and
\* otherwise names the side of the retina and |offsetMM|, in the simulator
\* and in the game.
C10_FocusDescription ==
  out.drawn => \A p \in Panels : DescribedByRule(p)

----------------------------------------------------------------------------
(* The view after a zoom *)

\* where the view v shows the world point that was under the cursor of the
\* last zoom event before it
CursorPointX(v) ==
  QAdd(v.panX, QMul(QDiv(QSub(ev.cursorX, ev.before.panX), ev.before.zoom), v.zoom))

CursorPointY(v) ==
  QAdd(v.panY, QMul(QDiv(QSub(ev.cursorY, ev.before.panY), ev.before.zoom), v.zoom))

\* C1: after a wheel event or a click on a zoom button, the world point that
\* was under the cursor before the zoom is under the cursor after it (within
\* 1e-6 pixel), also when the new zoom was clamped.
C1_ZoomKeepsCursorPoint ==
  ev.kind \in {"wheel", "click"} =>
     /\ QLe(QAbs(QSub(CursorPointX(ev.after), ev.cursorX)), Eps6)
     /\ QLe(QAbs(QSub(CursorPointY(ev.after), ev.cursorY)), Eps6)

\* C2: in the simulator and in the game the zoom of the detail view is
\* positive and inside [0.01, 1000] after any sequence of zoom operations.
C2_ZoomInRange ==
  page \in {"sim", "game"} =>
     /\ QGt(view.zoom, Zero)
     /\ QLe(Q(1, 100), view.zoom)
     /\ QLe(view.zoom, Q(1000, 1))

----------------------------------------------------------------------------
(* Images at infinity *)

\* the final stage of the diagram does not converge: the power of the lenses
\* equals the vergence of the object
NonConverging(p) ==
  QSub(QAdd(p.scene.glasses.P, p.scene.eye.P), QDiv(One, QNeg(p.scene.object.x))) = Zero

\* C11: when the final stage does not converge, the final image position is
\* the at-infinity state and the description is the image-at-infinity text,
\* with no focus distance, in the simulator and in the game's spoiler
\* diagrams.
C11_InfinityIsExplicit ==
  (page \in {"sim", "game"} /\ out.drawn) =>
     \A p \in Panels :
        NonConverging(p) =>
           /\ p.finalX \in {PosInf, NegInf}
           /\ p.infoText.kind = "infinity"
           /\ p.infoText.mm = Undefined


\* a view a canvas can be drawn with: positive zoom, finite pan
UsableView(v) ==
  /\ IsFinite(v.zoom) /\ QGt(v.zoom, Zero)
  /\ IsFinite(v.panX) /\ IsFinite(v.panY)

\* C13: the auto-fit view of every drawn overview canvas has zoom > 0 and
\* finite panX and panY, whatever the scene (zero-width extents and a final
\* image at infinity included)
C13_AutoFitIsUsable ==
  (page \in {"sim", "game"} /\ out.drawn) =>
     \A p \in Panels : UsableView(p.overview)


\* C12: whatever the object-distance control holds (zero, a negative number,
\* text that is not a number), the object distance of the configuration
\* that requestRedraw hands to drawSimulation is at least 0.001, so positive
C12_ObjectDistancePositive ==
  (page \in {"sim", "legacy"} /\ out.drawn) =>
     /\ IsFinite(out.config.objectDistance)
     /\ QLe(Q(1, 1000), out.config.objectDistance)


\* a step that is no wheel or zoom-button event moved the detail view
Panned == ev' = ev /\ view' # view

\* C15: the panning flag is up exactly from a press to the next release or
\* pointer-leave; the view is panned only by a move made while the flag is
\* up, by exactly the pointer's displacement since the previous press or
\* move, with the zoom unchanged and no clamping; a press, a release and a
\* pointer-leave move nothing, and after a pointer-leave no move pans before
\* the next press
C15_PanFollowsPointer ==
  [][ /\ Panned =>
           /\ pan.isPanning /\ pan'.isPanning
           /\ view'.zoom = view.zoom
           /\ view'.panX = QAdd(view.panX, QSub(pan'.lastX, pan.lastX))
           /\ view'.panY = QAdd(view.panY, QSub(pan'.lastY, pan.lastY))
      /\ pan'.isPanning # pan.isPanning => view' = view
      /\ pan'.isPanning <=> pan'.cursor = "grabbing"
    ]_vars

\* a drag has moved the detail view of the simulator or the game off its
\* centre, and the button is released or the pointer has left
C15_Witness ==
  /\ page \in {"sim", "game"}
  /\ ev = NoEvent
  /\ view.panX # Q(canvasWidth, 2)
  /\ view.panY # Q(canvasHeight, 2)
  /\ ~pan.isPanning
  /\ pan.cursor = "grab"


\* the view the auto-fit gives the scene of an overview panel
AutoFitOf(p) ==
  IF page = "sim" THEN SimAutoView(p.scene, consts) ELSE GameAutoView(p.scene)

\* the views of the overview canvases, in order
Overviews(o) == [i \in DOMAIN o.panels |-> o.panels[i].overview]

\* C14: the view of an overview canvas is the auto-fit of the scene drawn on
\* it and no press, move, release, wheel or zoom-button event changes it;
\* the detail view changes in the pan and zoom handlers only, never in a
\* redraw or a change of configuration
C14_ViewsChangeOnlyInHandlers ==
  /\ []((page \in {"sim", "game"} /\ out.drawn) =>
            \A p \in Panels : p.overview = AutoFitOf(p))
  /\ [][ /\ (page \in {"sim", "game"} /\ out.drawn /\ ctl' = ctl) =>
               Overviews(out') = Overviews(out)
         /\ view' # view =>
               /\ ctl' = ctl
               /\ ev' # ev \/ pan.isPanning
         /\ (page = "sim" /\ out'.drawn) => out'.detailView = view'
       ]_vars

\* the simulator after a zoom and a lens-mode change, and the game after a
\* zoom with its spoiler diagrams drawn: the detail view is off its start,
\* the overviews are drawn
C14_Witness ==
  /\ out.drawn
  /\ ev.kind = "wheel"
  /\ view.zoom # ev.before.zoom
  /\ \/ page = "sim" /\ ctl.lensMode = "glasses"
     \/ page = "game" /\ ctl.detailViewSelect = "2"


\* the power in the test-lens input that the detailViewSelect radios select
SelectedLensPower(c) ==
  IF c.detailViewSelect = "1" THEN parseFloatSafe(c.lens1Power, Zero)
  ELSE parseFloatSafe(c.lens2Power, Zero)

\* a step that requests a redraw of the detail view: the response to
\* ask_patient has arrived, or the other detailViewSelect radio is chosen
DetailRedrawRequested ==
  \/ game.asking /\ ~game'.asking
  \/ ctl'.detailViewSelect # ctl.detailViewSelect

\* C18: once ask_patient has revealed patient_error_D, whatever its value
\* (0 included), every request to redraw the detail view draws the scene of
\* that error and of the selected test lens
C18_DetailShowsRevealedPatient ==
  [][ (page = "game" /\ game'.lastPatientError # Undefined /\ DetailRedrawRequested) =>
         out'.detail = DetailPanel([patient_error_D |-> game'.lastPatientError,
                                    test_lens_D |-> SelectedLensPower(ctl')], consts)
    ]_vars


\* the step in which the response to ask_patient is handled
AskAnswered == game.asking /\ ~game'.asking /\ game'.askResult = "ok"

\* since the pending ask was sent the time has run out, a guess has been
\* submitted, or a test-lens input holds another power than the one sent
Superseded ==
  \/ game.timeLeft <= 0
  \/ game.submitResult # "none"
  \/ parseFloatSafe(ctl.lens1Power, Zero) # game.lens1
  \/ parseFloatSafe(ctl.lens2Power, Zero) # game.lens2

\* C16: a response to ask_patient that arrives after a more recent action
\* of the user or of the timer is not applied: the feedback text, the
\* spoiler diagrams with the detail view, and the states of the controls
\* stay as that action left them
C16_StaleResponseIgnored ==
  [][ (page = "game" /\ AskAnswered /\ Superseded) =>
         /\ game'.feedback = game.feedback
         /\ out' = out
         /\ game'.lastPatientError = game.lastPatientError
         /\ game'.askDisabled = game.askDisabled
         /\ game'.lensDisabled = game.lensDisabled
    ]_vars

\* the steps in which a failed request is handled
AskFailed == game.asking /\ ~game'.asking /\ game'.askResult \in {"rejected", "notOk"}

SubmitFailed == game.submitResult = "pending" /\ game'.submitResult = "rejected"

\* C17: when the request of ask_patient or of submit_guess fails, whatever
\* the timer shows, the failure is caught, a message is shown in the
\* feedback area, and the controls the request disabled are enabled again:
\* the ask button; the submit button and the guess input
C17_FailureReenablesControls ==
  [][ /\ (page = "game" /\ AskFailed) =>
           /\ game'.feedback = "Network error"
           /\ ~game'.askDisabled
      /\ (page = "game" /\ SubmitFailed) =>
           /\ game'.feedback \in {"Network error", "Time's up!"}
           /\ ~game'.submitDisabled
           /\ ~game'.guessDisabled
    ]_vars


\* the page has run its scripts without something the drawing needs
PrerequisiteMissing ==
  /\ page \in {"sim", "legacy"}
  /\ dom.loaded
  /\ ~dom.ctx \/ consts = NoConstants

\* C19: when a canvas context or the optical constants are missing, nothing
\* of the scene is drawn and the user is shown a message (an alert or a
\* text in place of the diagram)
C19_MissingPrerequisiteIsShown ==
  PrerequisiteMissing =>
     /\ ~out.drawn
     /\ dom.alert # "" \/ dom.placeholder # ""

\* C20: a further call of requestRedraw with the controls and the detail
\* view as they are changes nothing: the canvases and the description stay
\* as the first call left them, and so do the detail view, the panning flag
\* and the pending timers (no timer is added)
C20_RedrawIsIdempotent ==
  [][ (page \in {"sim", "legacy"} /\ dom.loaded /\ ctl' = ctl /\ view' = view) =>
         /\ out.drawn => out' = out
         /\ pan' = pan
         /\ dom'.timers <= dom.timers
    ]_vars


\* a lens with power, and the object within 1e-9 m of its plane
AtLensPlane == ~QLt(QAbs(lensIn.P), Eps9) /\ QLt(QAbs(lensIn.u), Eps9)

\* C24: for a lens of non-zero power and an object within 1e-9 m of the
\* lens plane, both solvers return image position 0 and magnification 1.0,
\* and the image height is the object height
C24_ObjectAtLens ==
  (Solved /\ AtLensPlane) =>
     /\ ResV = Zero
     /\ ResMag = One
     /\ ResH = lensIn.h


\* the round has ended on time: endGameDueToTime has run
EndedOnTime == game.endRuns > 0

\* C26: once endGameDueToTime has run, by the local countdown or by a
\* response with remaining_time <= 0, the Ask Patient button is disabled in
\* every later state of the round
C26_AskStaysDisabledAfterTimeUp == EndedOnTime => game.askDisabled

\* the last submit_guess failed and the local clock has time left
SubmitFailedInTime ==
  game.submitResult \in {"notOk", "rejected"} /\ game.timeLeft > 0

\* C27: while a started round is neither ended on time nor showing results
\* the one-second countdown is active, and it is active after a submit_guess
\* that failed with time remaining
C27_CountdownStaysActive ==
  /\ (game.started /\ ~EndedOnTime /\ ~game.resultsShown) => game.intervals > 0
  /\ SubmitFailedInTime => game.intervals > 0

\* C28: timeLeft never goes below 0, at most one countdown interval is
\* active, and endGameDueToTime runs at most once in a round
C28_TimerBounds ==
  /\ game.timeLeft >= 0
  /\ game.intervals <= 1
  /\ game.endRuns <= 1


\* C23: a non-numeric value of a numeric control is replaced by the
\* control's default before it is placed in a request body: the test-lens
\* powers of a pending ask_patient and the guess of a pending submit_guess
\* are finite numbers
C23_RequestsCarryNumbers ==
  /\ game.asking => (IsFinite(game.lens1) /\ IsFinite(game.lens2))
  /\ game.submitResult = "pending" => IsFinite(game.guessSent)


\* the pixel column a view shows the world abscissa x at (ctx.translate by
\* panX, ctx.scale by zoom, abscissae drawn at x * PPM)
PixelX(v, x, PPM) == QAdd(v.panX, QMul(v.zoom, QMul(x, <<PPM, 1>>)))

\* the x-extent a page's auto-fit is given, its margin in pixels and its scale
FittedExtent(p) ==
  IF page = "sim" THEN SimExtents(p.scene, consts) ELSE GameExtents(p.scene)

MarginPx == IF page = "sim" THEN Q(canvasWidth, 40) ELSE Q(canvasWidth * 5, 100)

PagePPM == IF page = "sim" THEN PIXELS_PER_METER ELSE GAME_PIXELS_PER_METER

\* C22: the auto-fit view of an overview canvas shows the minimum of the
\* fitted x-extent at the margin column and its maximum at canvas width
\* minus the margin, and the optical axis at canvas mid-height
C22_AutoFitFramesExtent ==
  (page \in {"sim", "game"} /\ out.drawn) =>
     \A p \in Panels :
        /\ PixelX(p.overview, MinOf(FittedExtent(p)), PagePPM) = MarginPx
        /\ PixelX(p.overview, MaxOf(FittedExtent(p)), PagePPM)
              = QSub(Q(canvasWidth, 1), MarginPx)
        /\ p.overview.panY = Q(canvasHeight, 2)


\* the segments drawn from the eye lens on, over the rays of a panel
LastSegments(p) == { p.rays.rays[i].segments[3] : i \in DOMAIN p.rays.rays }

\* C25: when the final image is at infinity, every ray segment leaving the
\* last lens is drawn between finite points, and no image marker is drawn
C25_RaysStayFinite ==
  (page \in {"sim", "game"} /\ out.drawn) =>
     \A p \in Panels :
        IsInf(p.finalX) =>
           /\ ~p.rays.marker
           /\ \A seg \in LastSegments(p) : \A j \in 1..4 : IsFinite(seg[j])


\* The paraxial recurrence: a ray of height y and slope s leaves a lens of
\* power P with slope s - y*P at the same height, and dx further on its
\* height is y + s*dx.  The three segments of the ray that starts at the
\* object plane with height y0 and slope s0; lengths are in pixels, PPM to
\* the metre, so a height of y0 pixels is y0/PPM metres.
ParaxialSegments(y0, s0, scene, PPM) ==
  LET ox == QMul(scene.object.x, PPM)
      gx == QMul(scene.glasses.x, PPM)
      ex == QMul(scene.eye.x, PPM)
      fx == QMul(scene.finalImage.x, PPM)
      y1 == QAdd(y0, QMul(s0, QSub(gx, ox)))
      s1 == QSub(s0, QMul(QDiv(y1, PPM), scene.glasses.P))
      y2 == QAdd(y1, QMul(s1, QSub(ex, gx)))
      s2 == QSub(s1, QMul(QDiv(y2, PPM), scene.eye.P))
      y3 == QAdd(y2, QMul(s2, QSub(fx, ex)))
  IN  << <<ox, y0, gx, y1>>, <<gx, y1, ex, y2>>, <<ex, y2, fx, y3>> >>

\* C21: every ray drawn is traced by the paraxial recurrence, and its three
\* drawn segments (object to glasses, glasses to eye, eye to image plane)
\* are the traced ones
C21_DrawnRaysAreTraced ==
  (page \in {"sim", "game"} /\ out.drawn) =>
     \A p \in Panels :
        IsFinite(p.finalX) =>
           \A i \in DOMAIN p.rays.rays :
              p.rays.rays[i].segments
                = ParaxialSegments(p.rays.rays[i].y, p.rays.rays[i].slope,
                                   p.scene, p.rays.PPM)


\* a loaded simulator page with no retry timer pending and a drawn canvas
RetrySettled == out.drawn /\ dom.timers = 0

\* C29: on the simulator page the number of pending 50 ms timers stays
\* bounded under repeated input events (by the two a page sets while it
\* loads: the retry of the first requestRedraw and the timer at the end of
\* the drawing script), and after the page's first
\* requestRedraw drawSimulation is eventually called and no retry timer
\* stays pending, whether or not the drawing script's setup completed
C29_RetryTerminates ==
  /\ [](page = "sim" => dom.timers <= 2)
  /\ (page = "sim" /\ dom.loaded) ~> RetrySettled


\* a GET outside URLS_TO_CACHE, made after the network had answered a GET of
\* the same path, has just been answered from the catch
FellBack ==
  /\ sw.answer.kind = "fallback"
  /\ sw.answer.method = "GET"
  /\ sw.answer.seen # 0

\* C30: on the network-first path, a GET whose network fetch fails after a
\* fetch of the same URL has succeeded is answered with the response of the
\* most recent successful fetch, in every interleaving of fetch events and
\* cache writes
C30_FallbackIsLatest == FellBack => sw.answer.resp = sw.answer.lastOk

====
